---- MODULE Spec2Model ----
(***************************************************************************)
(* Contact-form backend: the store connection supervisor (config/db.js,    *)
(* dbConnect), the User model (models/User.js) and the form-intake handler *)
(* POST /api/send-whatsapp of server.js (variant that calls dbConnect).    *)
(*                                                                         *)
(* JavaScript runs each synchronous stretch to completion, so one action   *)
(* is one stretch between two awaits.  The outcomes of the awaited calls   *)
(* (mongoose.connect, user.save, sheets append, client.sendMessage) are    *)
(* chosen by the environment.  The environment is assumed to supply a      *)
(* parsable GOOGLE_SHEETS_CREDENTIALS, so module load reaches app.listen.  *)
(***************************************************************************)
EXTENDS Integers, Sequences, FiniteSets

\* ---------------------------------------------------------------- bounds
MaxReq == 2                     \* number of form submissions considered

\* ------------------------------------------------------ program constants
maxRetries == 5
retryInterval == 2000

Reqs == 1..MaxReq

\* Bodies the clients send: { name, email, phone, message }.
FormFields == {"name", "email", "phone", "message"}
Payloads ==
  { [name |-> "n1", email |-> "e1", phone |-> "p1", message |-> "m1"],
    [name |-> "n2", email |-> "e1", phone |-> "p1", message |-> "m2"] }

\* Paths declared by userSchema.
userSchema == {"firstName", "lastName", "company", "email", "phone", "message"}

\* new User(obj): a schema in (default) strict mode keeps only the keys of
\* obj that are declared paths; the others are dropped silently.
User(obj) == [f \in (DOMAIN obj) \cap userSchema |-> obj[f]]

\* The row handed to sheets.spreadsheets.values.append (the trailing
\* timestamp cell is left out: it does not depend on the submission).
SheetRow(data) == <<data.name, data.email, data.phone, data.message>>

\* `New message from ${name} (${phone}, ${email}): ${message}`
userMessage(p) == <<"New message from ", p.name, " (", p.phone, ", ", p.email, "): ", p.message>>

VARIABLES
  main,          \* position of the module's top-level code
  state,         \* supervisor: Idle/Attempting/Retrying/Connected/Exhausted/Returned
  attempt,       \* the loop variable of dbConnect
  attemptsMade,  \* attempt numbers for which mongoose.connect was called
  log,           \* console output of dbConnect
  delays,        \* completed retryInterval waits
  waited,        \* milliseconds spent in those waits
  readySignals,  \* times the success path was taken
  exitSignals,   \* times process.exit(1) was called by dbConnect
  escalated,     \* attempt numbers whose failure called process.exit
  promise,       \* the promise returned by dbConnect()
  exited,        \* the process has terminated
  payload,       \* request -> body
  rpc,           \* request -> position of its handler
  steps,         \* request -> external calls started, in order
  results,       \* request -> outcomes of the calls completed, in order
  resp,          \* request -> HTTP responses sent
  store,         \* documents saved in the store
  sheet,         \* rows appended to the spreadsheet
  sent           \* chat messages sent

supVars == <<state, attempt, attemptsMade, log, delays, waited, readySignals,
             exitSignals, escalated, promise, exited>>
reqVars == <<payload, rpc, steps, results, resp, store, sheet, sent>>
vars == <<main, supVars, reqVars>>

Init ==
  /\ main = "dbConnect"
  /\ state = "Idle"
  /\ attempt = 0
  /\ attemptsMade = <<>>
  /\ log = <<>>
  /\ delays = 0
  /\ waited = 0
  /\ readySignals = 0
  /\ exitSignals = 0
  /\ escalated = <<>>
  /\ promise = "none"
  /\ exited = FALSE
  /\ payload \in [Reqs -> Payloads]
  /\ rpc = [r \in Reqs |-> "new"]
  /\ steps = [r \in Reqs |-> <<>>]
  /\ results = [r \in Reqs |-> <<>>]
  /\ resp = [r \in Reqs |-> <<>>]
  /\ store = <<>>
  /\ sheet = <<>>
  /\ sent = <<>>

\* ------------------------------------------------------------- dbConnect

\* for (...; attempt <= maxRetries; ...)
LoopCond(a) == a <= maxRetries

IsFinalAttempt_Early(a) == a = maxRetries - 1
IsFinalAttempt_Never(a) == FALSE
\* if (attempt === maxRetries)
IsFinalAttempt(a) == a = maxRetries

NextAttempt_Skip(a) == a + 2
\* attempt++
NextAttempt(a) == a + 1

LogLine(m, a) == [msg |-> m, attempt |-> a]

\* Re-entering the loop head with loop variable a: either the body starts
\* and calls mongoose.connect, or the loop ends and the function returns.
LoopHead(a) ==
  /\ attempt' = a
  /\ IF LoopCond(a)
       THEN /\ state' = "Attempting"
            /\ attemptsMade' = Append(attemptsMade, a)
            /\ promise' = "pending"
       ELSE /\ state' = "Returned"
            /\ attemptsMade' = attemptsMade
            /\ promise' = "fulfilled"

\* server.js: dbConnect() is called, not awaited; the async function runs up
\* to its first await, i.e. into the first mongoose.connect call.
DbConnectCall ==
  /\ main = "dbConnect"
  /\ main' = "listen"
  /\ LoopHead(1)
  /\ UNCHANGED <<log, delays, waited, readySignals, exitSignals, escalated, exited>>
  /\ UNCHANGED reqVars

\* server.js: the rest of the top-level code, ending in app.listen.
Listen ==
  /\ main = "listen"
  /\ main' = "loaded"
  /\ UNCHANGED <<supVars, reqVars>>

\* The awaited mongoose.connect resolved: log, break; the loop ends and the
\* function returns.
ConnectOk_NoBreak ==
  /\ main = "loaded" /\ ~exited
  /\ state = "Attempting"
  /\ log' = Append(log, LogLine("connected", 0))
  /\ readySignals' = readySignals + 1
  /\ LoopHead(NextAttempt(attempt))
  /\ UNCHANGED <<main, delays, waited, exitSignals, escalated, exited>>
  /\ UNCHANGED reqVars

ConnectOk ==
  /\ main = "loaded" /\ ~exited
  /\ state = "Attempting"
  /\ log' = Append(log, LogLine("connected", 0))
  /\ readySignals' = readySignals + 1
  /\ state' = "Connected"
  /\ promise' = "fulfilled"
  /\ UNCHANGED <<main, attempt, attemptsMade, delays, waited, exitSignals, escalated, exited>>
  /\ UNCHANGED reqVars

\* The awaited mongoose.connect rejected: the catch block logs the attempt,
\* then either exits the process or arms the retry timer.
ConnectFail_NoWait ==
  /\ main = "loaded" /\ ~exited
  /\ state = "Attempting"
  /\ IF IsFinalAttempt(attempt)
       THEN /\ log' = log \o <<LogLine("failed", attempt), LogLine("max-retries", 0)>>
            /\ state' = "Exhausted"
            /\ exitSignals' = exitSignals + 1
            /\ escalated' = Append(escalated, attempt)
            /\ exited' = TRUE
            /\ UNCHANGED <<attempt, attemptsMade, promise>>
       ELSE /\ log' = log \o <<LogLine("failed", attempt), LogLine("retrying", 0)>>
            /\ LoopHead(NextAttempt(attempt))
            /\ UNCHANGED <<exitSignals, escalated, exited>>
  /\ UNCHANGED <<main, delays, waited, readySignals>>
  /\ UNCHANGED reqVars

ConnectFail_NoCatch ==
  /\ main = "loaded" /\ ~exited
  /\ state = "Attempting"
  /\ state' = "Returned"
  /\ promise' = "rejected"
  /\ UNCHANGED <<main, attempt, attemptsMade, log, delays, waited, readySignals,
                 exitSignals, escalated, exited>>
  /\ UNCHANGED reqVars

ConnectFail ==
  /\ main = "loaded" /\ ~exited
  /\ state = "Attempting"
  /\ IF IsFinalAttempt(attempt)
       THEN /\ log' = log \o <<LogLine("failed", attempt), LogLine("max-retries", 0)>>
            /\ state' = "Exhausted"
            /\ exitSignals' = exitSignals + 1
            /\ escalated' = Append(escalated, attempt)
            /\ exited' = TRUE
       ELSE /\ log' = log \o <<LogLine("failed", attempt), LogLine("retrying", 0)>>
            /\ state' = "Retrying"
            /\ UNCHANGED <<exitSignals, escalated, exited>>
  /\ UNCHANGED <<main, attempt, attemptsMade, delays, waited, readySignals, promise>>
  /\ UNCHANGED reqVars

\* setTimeout(resolve, retryInterval) fired: the wait is over, attempt++ and
\* the loop condition is tested again.
TimerFire ==
  /\ main = "loaded" /\ ~exited
  /\ state = "Retrying"
  /\ delays' = delays + 1
  /\ waited' = waited + retryInterval
  /\ LoopHead(NextAttempt(attempt))
  /\ UNCHANGED <<main, log, readySignals, exitSignals, escalated, exited>>
  /\ UNCHANGED reqVars

\* ------------------------------------------------ POST /api/send-whatsapp

Finish(r, status, body) ==
  /\ resp' = [resp EXCEPT ![r] = Append(@, [status |-> status, body |-> body])]
  /\ rpc' = [rpc EXCEPT ![r] = "done"]

\* catch (error): res.status(500).json({ success: false, error: error.message })
Catch(r, err) ==
  /\ results' = [results EXCEPT ![r] = Append(@, "fail")]
  /\ Finish(r, 500, err)

\* A request arrives; the handler destructures the body, builds the User
\* document and calls user.save().  Nothing tests the connection state.
Post(r) ==
  /\ main = "loaded" /\ ~exited
  /\ rpc[r] = "new"
  /\ rpc' = [rpc EXCEPT ![r] = "save"]
  /\ steps' = [steps EXCEPT ![r] = Append(@, "save")]
  /\ UNCHANGED <<main, supVars, payload, results, resp, store, sheet, sent>>

\* user.save() resolved (mongoose buffers the operation until the connection
\* is open, so it cannot resolve earlier); writeToGoogleSheets is called.
SaveOk(r) ==
  /\ ~exited
  /\ rpc[r] = "save"
  /\ state = "Connected"
  /\ store' = Append(store, [req |-> r, doc |-> User(payload[r])])
  /\ results' = [results EXCEPT ![r] = Append(@, "ok")]
  /\ steps' = [steps EXCEPT ![r] = Append(@, "sheet")]
  /\ rpc' = [rpc EXCEPT ![r] = "sheet"]
  /\ UNCHANGED <<main, supVars, payload, resp, sheet, sent>>

\* user.save() rejected (buffering timed out, write error, ...).
SaveFail(r) ==
  /\ ~exited
  /\ rpc[r] = "save"
  /\ Catch(r, "save-error")
  /\ UNCHANGED <<main, supVars, payload, steps, store, sheet, sent>>

\* values.append resolved; writeToGoogleSheets returns and
\* client.sendMessage is called.
SheetOk(r) ==
  /\ ~exited
  /\ rpc[r] = "sheet"
  /\ sheet' = Append(sheet, [req |-> r, row |-> SheetRow(payload[r])])
  /\ results' = [results EXCEPT ![r] = Append(@, "ok")]
  /\ steps' = [steps EXCEPT ![r] = Append(@, "send")]
  /\ rpc' = [rpc EXCEPT ![r] = "send"]
  /\ UNCHANGED <<main, supVars, payload, resp, store, sent>>

\* values.append rejected; writeToGoogleSheets logs and rethrows.
SheetFail_Swallow(r) ==
  /\ ~exited
  /\ rpc[r] = "sheet"
  /\ results' = [results EXCEPT ![r] = Append(@, "fail")]
  /\ steps' = [steps EXCEPT ![r] = Append(@, "send")]
  /\ rpc' = [rpc EXCEPT ![r] = "send"]
  /\ UNCHANGED <<main, supVars, payload, resp, store, sheet, sent>>

SheetFail(r) ==
  /\ ~exited
  /\ rpc[r] = "sheet"
  /\ Catch(r, "sheet-error")
  /\ UNCHANGED <<main, supVars, payload, steps, store, sheet, sent>>

\* client.sendMessage resolved: res.status(200).json({ success: true, ... })
SendOk(r) ==
  /\ ~exited
  /\ rpc[r] = "send"
  /\ sent' = Append(sent, [req |-> r, text |-> userMessage(payload[r])])
  /\ results' = [results EXCEPT ![r] = Append(@, "ok")]
  /\ Finish(r, 200, "Message sent successfully!")
  /\ UNCHANGED <<main, supVars, payload, steps, store, sheet>>

\* client.sendMessage rejected.
SendFail_Rollback(r) ==
  /\ ~exited
  /\ rpc[r] = "send"
  /\ Catch(r, "send-error")
  /\ store' = SelectSeq(store, LAMBDA d : d.req # r)
  /\ sheet' = SelectSeq(sheet, LAMBDA d : d.req # r)
  /\ UNCHANGED <<main, supVars, payload, steps, sent>>

SendFail(r) ==
  /\ ~exited
  /\ rpc[r] = "send"
  /\ Catch(r, "send-error")
  /\ UNCHANGED <<main, supVars, payload, steps, store, sheet, sent>>

Next ==
  \/ DbConnectCall
  \/ Listen
  \/ ConnectOk
  \/ ConnectFail
  \/ TimerFire
  \/ \E r \in Reqs : Post(r)
  \/ \E r \in Reqs : SaveOk(r)
  \/ \E r \in Reqs : SaveFail(r)
  \/ \E r \in Reqs : SheetOk(r)
  \/ \E r \in Reqs : SheetFail(r)
  \/ \E r \in Reqs : SendOk(r)
  \/ \E r \in Reqs : SendFail(r)

Spec == Init /\ [][Next]_vars

\* The event loop runs module load to its end, every connect call eventually
\* returns and every armed timer eventually fires.
FairSpec ==
  /\ Spec
  /\ WF_vars(DbConnectCall)
  /\ WF_vars(Listen)
  /\ WF_vars(ConnectOk \/ ConnectFail)
  /\ WF_vars(TimerFire)

\* ------------------------------------------------------------ properties

FailedLines == SelectSeq(log, LAMBDA l : l.msg = "failed")
ConnectedLines == SelectSeq(log, LAMBDA l : l.msg = "connected")
OutcomesKnown == Len(FailedLines) + Len(ConnectedLines)
UpTo(k) == [i \in 1..k |-> i]
IsPrefix(s, t) == Len(s) <= Len(t) /\ SubSeq(t, 1, Len(s)) = s
Pipeline == <<"save", "sheet", "send">>

\* C1: when every attempt fails the supervisor calls connect exactly
\* maxRetries times before it signals exhaustion: exhaustion is signalled
\* only with maxRetries attempts made and all of them failed, maxRetries
\* failures always end in exhaustion, and no run makes more attempts.
C1_BoundedAttempts ==
  /\ Len(attemptsMade) <= maxRetries
  /\ (exitSignals > 0 \/ state = "Exhausted") =>
        /\ Len(attemptsMade) = maxRetries
        /\ Len(FailedLines) = maxRetries
        /\ Len(ConnectedLines) = 0
  /\ Len(FailedLines) = maxRetries => state = "Exhausted" /\ exitSignals = 1

C1_Witness ==
  state = "Exhausted" /\ exited /\ Len(attemptsMade) = maxRetries /\ Len(FailedLines) = maxRetries

\* C2: once an attempt has succeeded the supervisor is Connected with its
\* promise fulfilled, and from then on no further attempt is made and no
\* fatal exit happens.
C2_EarlySuccessStops ==
  /\ [](readySignals > 0 =>
          /\ state = "Connected" /\ promise = "fulfilled"
          /\ exitSignals = 0 /\ ~exited
          /\ Len(attemptsMade) = attempt /\ attempt <= maxRetries)
  /\ [][readySignals > 0 =>
          /\ attemptsMade' = attemptsMade /\ attempt' = attempt
          /\ state' = "Connected" /\ exitSignals' = 0 /\ ~exited']_vars

C2_Witness ==
  /\ state = "Connected" /\ readySignals = 1 /\ attemptsMade = <<1, 2, 3>>
  /\ Len(FailedLines) = 2 /\ \E r \in Reqs : rpc[r] = "done"

\* C3: every supervised sequence eventually ends in exactly one of
\* Connected and Exhausted, with exactly one terminal signal; the two
\* signals never both occur and none is emitted twice.
C3_TerminalExclusivity ==
  /\ [](/\ readySignals + exitSignals <= 1
        /\ (state = "Connected" <=> readySignals = 1)
        /\ (state = "Exhausted" <=> exitSignals = 1))
  /\ <>[](/\ state \in {"Connected", "Exhausted"}
          /\ readySignals + exitSignals = 1)

C3_Witness ==
  state = "Connected" /\ attempt = maxRetries /\ readySignals = 1 /\ exitSignals = 0

\* C4: the attempts made are numbered 1..k for some k <= maxRetries, in
\* order, and the attempt numbers in the failure log lines are 1..j in
\* order, where j counts the attempts that have failed.
C4_MonotonicAttempts ==
  /\ Len(attemptsMade) <= maxRetries
  /\ attemptsMade = UpTo(Len(attemptsMade))
  /\ Len(FailedLines) <= Len(attemptsMade)
  /\ \A i \in 1..Len(FailedLines) : FailedLines[i].attempt = i
  /\ state \in {"Attempting", "Retrying", "Connected", "Exhausted"} =>
        attempt = Len(attemptsMade)

C4_Witness ==
  attemptsMade = <<1, 2, 3, 4>> /\ Len(FailedLines) = 3 /\ state = "Attempting"

\* C5: at most one attempt is in flight; a new attempt starts only out of
\* Retrying, with the previous outcome known, on completion of one more
\* full wait; Exhausted is entered straight from the failed attempt with no
\* wait; so k attempts are separated by exactly k-1 waits.
C5_AttemptDelayOrdering ==
  /\ [](state # "Idle" =>
          /\ delays = Len(attemptsMade) - 1
          /\ waited = delays * retryInterval
          /\ OutcomesKnown =
               IF state = "Attempting" THEN Len(attemptsMade) - 1 ELSE Len(attemptsMade))
  /\ [](state = "Exhausted" => delays = maxRetries - 1)
  /\ [][(attemptsMade' # attemptsMade /\ attemptsMade # <<>>) =>
          /\ state = "Retrying"
          /\ OutcomesKnown = Len(attemptsMade)
          /\ delays' = delays + 1
          /\ waited' = waited + retryInterval]_vars
  /\ [][state' = "Exhausted" /\ state # "Exhausted" =>
          state = "Attempting" /\ delays' = delays /\ waited' = waited]_vars

C5_Witness ==
  state = "Exhausted" /\ Len(attemptsMade) = maxRetries /\ delays = maxRetries - 1

\* C6: every failed attempt is logged with its number; only the failure of
\* attempt maxRetries calls process.exit; an earlier failure leads to a
\* retry; the promise returned by dbConnect never rejects.
C6_FailureEscalation ==
  /\ [](/\ promise # "rejected"
        /\ \A i \in 1..Len(escalated) : escalated[i] = maxRetries
        /\ Len(escalated) = exitSignals
        /\ (exited <=> exitSignals > 0)
        /\ Len(attemptsMade) - Len(FailedLines) \in {0, 1}
        /\ Len(attemptsMade) - Len(FailedLines) = 1 => state \in {"Attempting", "Connected"})
  /\ [][(state = "Attempting" /\ state' # "Attempting" /\ state' # "Connected") =>
          /\ log'[Len(log) + 1] = LogLine("failed", attempt)
          /\ IF attempt < maxRetries
               THEN state' = "Retrying" /\ ~exited' /\ promise' = "pending"
               ELSE state' = "Exhausted" /\ exited']_vars

C6_Witness ==
  /\ state = "Exhausted" /\ escalated = <<maxRetries>> /\ promise = "pending"
  /\ Len(FailedLines) = maxRetries

\* C7: while the supervisor is Attempting or Retrying no submission has
\* been taken up by the handler.
C7_ReadinessGating ==
  state \in {"Attempting", "Retrying"} => \A r \in Reqs : rpc[r] = "new"

\* C8: the handler starts save, sheet-append and message-send in that
\* order, each only after the previous one succeeded; it answers at most
\* once, exactly once when it has finished; the answer is 200 exactly when
\* all three steps succeeded and otherwise 500 carrying the error of the
\* step that failed, after which no further step was started.
C8_PipelineOrdering ==
  \A r \in Reqs :
    /\ IsPrefix(steps[r], Pipeline)
    /\ Len(results[r]) <= Len(steps[r])
    /\ Len(steps[r]) <= Len(results[r]) + 1
    /\ \A i \in 1..Len(results[r]) : i < Len(steps[r]) => results[r][i] = "ok"
    /\ Len(resp[r]) <= 1
    /\ (rpc[r] = "done" <=> Len(resp[r]) = 1)
    /\ rpc[r] = "done" =>
         /\ Len(results[r]) = Len(steps[r])
         /\ (resp[r][1].status = 200 <=> results[r] = <<"ok", "ok", "ok">>)
         /\ (resp[r][1].status # 200 =>
               /\ resp[r][1].status = 500
               /\ results[r][Len(results[r])] = "fail"
               /\ resp[r][1].body =
                    (CASE Len(steps[r]) = 1 -> "save-error"
                       [] Len(steps[r]) = 2 -> "sheet-error"
                       [] OTHER -> "send-error"))
    /\ (\E i \in 1..Len(sheet) : sheet[i].req = r) => Len(results[r]) >= 2
    /\ (\E i \in 1..Len(sent) : sent[i].req = r) => results[r] = <<"ok", "ok", "ok">>

C8_Witness ==
  /\ \E r \in Reqs : rpc[r] = "done" /\ resp[r][1].status = 200 /\ Len(steps[r]) = 3
  /\ \E r \in Reqs : rpc[r] = "done" /\ resp[r][1].status = 500 /\ steps[r] = <<"save", "sheet">>

\* C9: every record in the store carries the four submitted fields with
\* the submitted values.
C9_PersistedContent ==
  \A i \in 1..Len(store) :
    /\ FormFields \subseteq DOMAIN store[i].doc
    /\ \A f \in FormFields \cap DOMAIN store[i].doc :
         store[i].doc[f] = payload[store[i].req][f]

\* C10: nothing is ever removed from the store or the spreadsheet, so a
\* submission answered 500 keeps the record of its successful save and the
\* row of its successful append.
C10_NoRollback ==
  /\ [][IsPrefix(store, store') /\ IsPrefix(sheet, sheet')]_vars
  /\ [](\A r \in Reqs :
          /\ (Len(results[r]) >= 1 /\ results[r][1] = "ok") =>
                \E i \in 1..Len(store) : store[i].req = r
          /\ (Len(results[r]) >= 2 /\ results[r][2] = "ok") =>
                \E i \in 1..Len(sheet) : sheet[i].req = r)

C10_Witness ==
  \E r1, r2 \in Reqs :
    /\ r1 # r2 /\ payload[r1] = payload[r2]
    /\ rpc[r1] = "done" /\ resp[r1][1].status = 500 /\ results[r1] = <<"ok", "ok", "fail">>
    /\ \E i, j \in 1..Len(store) : store[i].req = r1 /\ store[j].req = r2
    /\ \E i, j \in 1..Len(sheet) : sheet[i].req = r1 /\ sheet[j].req = r2
====
